---- MODULE Spec2Model ----
(***************************************************************************)
(* A model of the LPA* engine of src/main/algorithms/LPAStar.py            *)
(* (lpa_star, update_vertex, calc_key, reconstruct_path,                   *)
(* get_checked_neighbors) over a 4-connected grid with unit edge weights,  *)
(* and of the heuristics and the two-thread path count of                  *)
(* src/main/testing/RP.py.                                                 *)
(***************************************************************************)
EXTENDS Integers, Sequences, FiniteSets, Bags, TLC

\* ------------------------------------------------------------------ bounds
\* The grid has Rows x Cols cells.
Rows == 3
Cols == 3
\* Largest finite cost drawn for the inputs of SpecUV.
MaxCost == 1

\* float("inf"): larger than every finite cost or key the model can build.
Inf == 1000

VARIABLES
    start,            \* grid.start
    end,              \* grid.end
    barriers,         \* cells in state Barrier (absent from neighbour lists)
    endBeenChecked,   \* grid.end.been_checked
    tags,             \* node -> state tag
    g,                \* node -> g value
    rhs,              \* node -> rhs value
    open,             \* open_list, a bag of [key, node] entries
    topKey,           \* lpa_star's local topKey
    run,              \* lpa_star's local run flag
    pc,               \* where the engine is
    cur,              \* reconstruct_path's local current
    exit,             \* how the main loop was left
    route,            \* nodes marked Path by reconstruct_path in this run
    reconCalls,       \* calls of reconstruct_path in this run
    runNo,            \* 1 for the first call of lpa_star, 2 for the re-run
    gPrev,            \* g as the previous run left it
    rhsPrev,          \* rhs as the previous run left it
    blocked,          \* the node turned into a Barrier between the runs
    uvnode,           \* argument of the update_vertex calls of SpecUV
    hcall,            \* arguments of a call of heuristic()
    hret,             \* what that call returned or raised
    cameFrom,         \* the came_from dict handed to both workers
    wargs,            \* worker -> (current, target) of its args tuple
    workers,          \* worker -> its position, local current, loaded counter
    path,             \* <<path1[0], path2[0]>>
    tresult           \* what thread_construct returned

vars == <<start, end, barriers, endBeenChecked, tags, g, rhs, open, topKey,
          run, pc, cur, exit, route, reconCalls, runNo, gPrev, rhsPrev,
          blocked, uvnode, hcall, hret, cameFrom, wargs, workers, path,
          tresult>>

hvars == <<hcall, hret>>

tvars == <<cameFrom, wargs, workers, path, tresult>>

\* ------------------------------------------------------------------ grid
Nodes == (0 .. Rows - 1) \X (0 .. Cols - 1)

NoNode == <<-1, -1>>

\* The four cells around n in the order the neighbour list is built.
Around(n) == << <<n[1] + 1, n[2]>>, <<n[1] - 1, n[2]>>,
                <<n[1], n[2] + 1>>, <<n[1], n[2] - 1>> >>

InGrid(n) == n \in Nodes

\* node.neighbors: the adjacent cells that are not barriers, as a list.
NeighborSeq(n, bar) ==
    LET keep(m) == InGrid(m) /\ m \notin bar
    IN  SelectSeq(Around(n), keep)

SeqRange(s) == {s[i] : i \in 1 .. Len(s)}

Neighbors(n, bar) == SeqRange(NeighborSeq(n, bar))

\* ------------------------------------------------------------------ node state
is_checked(T, n) == T[n] = "Checked"
is_unchecked(T, n) == T[n] = "Unchecked"
is_start(T, n) == T[n] = "Start"
is_end(T, n) == T[n] = "End"

check(T, n) == [T EXCEPT ![n] = "Checked"]
uncheck(T, n) == [T EXCEPT ![n] = "Unchecked"]
make_path(T, n) == [T EXCEPT ![n] = "Path"]

\* ------------------------------------------------------------------ arithmetic
Abs(x) == IF x < 0 THEN -x ELSE x

\* a + b on floats where Inf is float("inf")
Plus(a, b) == IF a = Inf \/ b = Inf THEN Inf ELSE a + b

Min2(a, b) == IF a < b THEN a ELSE b

SetMin(S) == CHOOSE x \in S : \A y \in S : x <= y

\* ------------------------------------------------------------------ heuristic
\* a variant without abs()
manhattan_NoAbs(n1, n2) == (n1[1] - n2[1]) + (n1[2] - n2[2])

manhattan(n1, n2) == Abs(n1[1] - n2[1]) + Abs(n1[2] - n2[2])

\* What a heuristic returns: the real number num^(1/root) (root 1 for an
\* integer, 2 for a square root), float("inf"), or the exception it raises.
Val(n, k) == [tag |-> "num", num |-> n, root |-> k]

InfVal == [tag |-> "inf", num |-> Inf, root |-> 1]

Raised(e) == [tag |-> e, num |-> 0, root |-> 1]

NoVal == [tag |-> "none", num |-> 0, root |-> 1]

Max2(a, b) == IF a > b THEN a ELSE b

\* b ** e on non-negative integers; 0 ** 0 is 1
RECURSIVE Pow(_, _)
Pow(b, e) == IF e = 0 THEN 1 ELSE b * Pow(b, e - 1)

determinant_2x2(matrix) ==
    matrix[1][1] * matrix[2][2] - matrix[1][2] * matrix[2][1]

\* a variant whose off-diagonal entries are 0
covariance_matrix_Diag(point1, point2) ==
    LET cov_x_x == (point1[1] - point2[1]) * (point1[1] - point2[1])
        cov_y_y == (point1[2] - point2[2]) * (point1[2] - point2[2])
    IN  << <<cov_x_x, 0>>, <<0, cov_y_y>> >>

covariance_matrix(point1, point2) ==
    LET cov_x_x == (point1[1] - point2[1]) * (point1[1] - point2[1])
        cov_y_y == (point1[2] - point2[2]) * (point1[2] - point2[2])
        cov_x_y == (point1[1] - point2[1]) * (point1[2] - point2[2])
    IN  << <<cov_x_x, cov_x_y>>, <<cov_x_y, cov_y_y>> >>

\* "determinant < 1e-10": the determinant of an integer matrix is an integer,
\* so the test is determinant < 1.  In the other branch d * d / matrix[i][i]
\* divides by a diagonal entry; a zero entry raises ZeroDivisionError.
mahalanobis(node1, node2) ==
    LET matrix == covariance_matrix(node1, node2)
        diff   == <<node1[1] - node2[1], node1[2] - node2[2]>>
    IN  IF determinant_2x2(matrix) < 1
        THEN InfVal
        ELSE IF matrix[1][1] = 0 \/ matrix[2][2] = 0
        THEN Raised("ZeroDivisionError")
        ELSE Val((diff[1] * diff[1]) \div matrix[1][1]
                   + (diff[2] * diff[2]) \div matrix[2][2], 2)

\* (d1 + d2) ** (1 / p) for an integer p >= 0; 1 / 0 raises
minkowski(node1, node2, p) ==
    LET d1 == Pow(Abs(node1[1] - node2[1]), p)
        d2 == Pow(Abs(node1[2] - node2[2]), p)
    IN  IF p = 0 THEN Raised("ZeroDivisionError") ELSE Val(d1 + d2, p)

chebyshev(node1, node2) ==
    Max2(Abs(node1[1] - node2[1]), Abs(node1[2] - node2[2]))

\* math.sqrt(dx ** 2 + dy ** 2)
euclidean(node1, node2) ==
    Val((node1[1] - node2[1]) * (node1[1] - node2[1])
          + (node1[2] - node2[2]) * (node1[2] - node2[2]), 2)

\* blocked_penalty starts at len(node1.neighbors) and loses one for every
\* neighbour that is neither checked nor unchecked
d_manhattan(node1, node2, T, bar) ==
    LET nbs == NeighborSeq(node1, bar)
        skipped == {i \in 1 .. Len(nbs) :
                      ~is_checked(T, nbs[i]) /\ ~is_unchecked(T, nbs[i])}
        blocked_penalty == Len(nbs) - Cardinality(skipped)
    IN  Abs(node1[1] - node2[1]) + Abs(node1[2] - node2[2]) + blocked_penalty

\* heuristic(type, node1, node2, *args) on a grid with tags T and barriers bar
heuristic(type, node1, node2, args, T, bar) ==
    CASE type = "chebyshev"   -> Val(chebyshev(node1, node2), 1)
      [] type = "d_manhattan" -> Val(d_manhattan(node1, node2, T, bar), 1)
      [] type = "euclidean"   -> euclidean(node1, node2)
      [] type = "manhattan"   -> Val(manhattan(node1, node2), 1)
      [] type = "minkowski"   -> IF args = << >>
                                 THEN Raised("IndexError")
                                 ELSE minkowski(node1, node2, args[1])
      [] type = "mahalanobis" -> mahalanobis(node1, node2)
      [] OTHER                -> Val(manhattan(node1, node2), 1)

NoCall == [type |-> "none", node1 |-> NoNode, node2 |-> NoNode, args |-> << >>]

\* no call of heuristic() is under way
IdleHeur == hcall = NoCall /\ hret = NoVal

\* ------------------------------------------------------------------ thread_construct
\* The keys and values of came_from are taken from NumW nodes.
NumW == 3

WalkNodes == 1 .. NumW

\* came_from[n] = Absent stands for "n not in came_from"
Absent == 0

CameFromMaps == [WalkNodes -> WalkNodes \cup {Absent}]

Workers == {1, 2}

NoResult == -1

\* a variant in which both workers are handed path1
Slot_Shared(i) == 1

\* the list worker i counts in: path1 for n1, path2 for n2
Slot(i) == i

\* the while-condition and the if of thread_count_path: the walk goes on
GoesOn(cf, current, target) ==
    cf[current] # Absent /\ cf[current] # target

\* path_size[0] after thread_count_path ran alone for at most fuel passes;
\* NoResult when the walk is not over by then
RECURSIVE CountAlone(_, _, _, _)
CountAlone(cf, current, target, fuel) ==
    IF ~GoesOn(cf, current, target) THEN 0
    ELSE IF fuel = 0 THEN NoResult
    ELSE LET rest == CountAlone(cf, cf[current], target, fuel - 1)
         IN  IF rest = NoResult THEN NoResult ELSE rest + 1

\* a walk that is not over after NumW passes has entered a cycle
Terminates(cf, a) == CountAlone(cf, a.current, a.target, NumW) # NoResult

WorkerIdle == [pc |-> "idle", current |-> Absent, tmp |-> 0]

\* thread_construct has not been called
IdleThreads ==
    /\ cameFrom = [n \in WalkNodes |-> Absent]
    /\ wargs = [i \in Workers |-> [current |-> 1, target |-> 1]]
    /\ workers = [i \in Workers |-> WorkerIdle]
    /\ path = <<0, 0>>
    /\ tresult = NoResult

Idle == IdleHeur /\ IdleThreads

\* ------------------------------------------------------------------ keys
\* Python's tuple comparison a < b on 2-tuples
KeyLess(a, b) == a[1] < b[1] \/ (a[1] = b[1] /\ a[2] < b[2])

calc_key(e, n, G, R) ==
    << Plus(Min2(G[n], R[n]), manhattan(n, e)), Min2(G[n], R[n]) >>

\* ------------------------------------------------------------------ open list
Entry(k, n) == [key |-> k, node |-> n]

EmptyOpen == EmptyBag

\* a variant that leaves the node's old entries in the list
RemoveNode_Keep(O, n) == O

\* [(key, value) for key, value in open_list if value != node]
RemoveNode(O, n) ==
    [e \in {x \in DOMAIN O : x.node # n} |-> O[e]]

\* heapq.heappush
Push(O, e) == O (+) SetToBag({e})

\* a variant that pops any entry, not a smallest one
MinEntries_Any(O) == DOMAIN O

\* the entries heapq.heappop may return: those whose key is minimal
MinEntries(O) ==
    {e \in DOMAIN O : \A f \in DOMAIN O : ~KeyLess(f.key, e.key)}

\* the list after heappop returned e
PopEntry(O, e) == O (-) SetToBag({e})

EntriesOf(O, n) == {e \in DOMAIN O : e.node = n}

\* number of entries of node n in the list
CountOf(O, n) ==
    LET S == EntriesOf(O, n)
    IN  BagCardinality([e \in S |-> O[e]])

\* ------------------------------------------------------------------ update_vertex
\* a variant that reads the g value of End without the test of been_checked
Qualifies_AnyEnd(T, nb) ==
    is_checked(T, nb) \/ is_start(T, nb) \/ is_unchecked(T, nb) \/ is_end(T, nb)

\* the neighbours whose g value update_vertex reads
Qualifies(T, nb) ==
    \/ is_checked(T, nb)
    \/ is_start(T, nb)
    \/ is_unchecked(T, nb)
    \/ (is_end(T, nb) /\ endBeenChecked)

\* a variant that forgets the edge cost: min(rhs[node], g[neighbor])
LookaheadRhs_NoStep(n, T, G) ==
    SetMin({Inf} \cup {G[nb] :
                nb \in {m \in Neighbors(n, barriers) : Qualifies(T, m)}})

\* rhs[node] after the loop over node.neighbors
LookaheadRhs(n, T, G) ==
    SetMin({Inf} \cup {Plus(G[nb], 1) :
                nb \in {m \in Neighbors(n, barriers) : Qualifies(T, m)}})

\* a variant without the test "node != grid.start"
update_vertex_NoGuard(n, T, R, G, O) ==
    LET R1 == [R EXCEPT ![n] = LookaheadRhs(n, T, G)]
        O1 == RemoveNode(O, n)
        O2 == IF G[n] # R1[n]
              THEN Push(O1, Entry(calc_key(end, n, G, R1), n))
              ELSE O1
    IN  [rhs |-> R1, open |-> O2]

\* a variant that computes the key before rhs[node] is rewritten
update_vertex_OldKey(n, T, R, G, O) ==
    IF n # start
    THEN LET R1 == [R EXCEPT ![n] = LookaheadRhs(n, T, G)]
             O1 == RemoveNode(O, n)
             O2 == IF G[n] # R1[n]
                   THEN Push(O1, Entry(calc_key(end, n, G, R), n))
                   ELSE O1
         IN  [rhs |-> R1, open |-> O2]
    ELSE [rhs |-> R, open |-> O]

\* a variant that pushes the node whether or not it is consistent
update_vertex_AlwaysPush(n, T, R, G, O) ==
    IF n # start
    THEN LET R1 == [R EXCEPT ![n] = LookaheadRhs(n, T, G)]
             O1 == RemoveNode(O, n)
         IN  [rhs |-> R1,
              open |-> Push(O1, Entry(calc_key(end, n, G, R1), n))]
    ELSE [rhs |-> R, open |-> O]

\* update_vertex(grid, node, rhs, g, open_list): the new rhs and the list returned
update_vertex(n, T, R, G, O) ==
    IF n # start
    THEN LET R1 == [R EXCEPT ![n] = LookaheadRhs(n, T, G)]
             O1 == RemoveNode(O, n)
             O2 == IF G[n] # R1[n]
                   THEN Push(O1, Entry(calc_key(end, n, G, R1), n))
                   ELSE O1
         IN  [rhs |-> R1, open |-> O2]
    ELSE [rhs |-> R, open |-> O]

\* ------------------------------------------------------------------ lpa_star
\* a variant that also leaves Path nodes as they are
Reopen_KeepPath(T, nb) ==
    IF ~is_start(T, nb) /\ ~is_end(T, nb) /\ ~is_checked(T, nb)
       /\ T[nb] # "Path"
    THEN uncheck(T, nb)
    ELSE T

\* a variant without the test "not neighbor.is_checked()"
Reopen_All(T, nb) ==
    IF ~is_start(T, nb) /\ ~is_end(T, nb) THEN uncheck(T, nb) ELSE T

\* the tags after "if not start, not end, not checked: neighbor.uncheck()"
Reopen(T, nb) ==
    IF ~is_start(T, nb) /\ ~is_end(T, nb) /\ ~is_checked(T, nb)
    THEN uncheck(T, nb)
    ELSE T

\* the loop "for neighbor in node.neighbors" of the main loop
RECURSIVE UpdateNeighbors(_, _, _, _, _)
UpdateNeighbors(seq, T, R, G, O) ==
    IF seq = << >>
    THEN [tags |-> T, rhs |-> R, open |-> O]
    ELSE LET nb == Head(seq)
             T1 == Reopen(T, nb)
             uv == update_vertex(nb, T1, R, G, O)
         IN  UpdateNeighbors(Tail(seq), T1, uv.rhs, G, uv.open)

\* g and the list after the branch on g[node] > rhs[node] for the popped node
SettleNode(n, T, R, G, O) ==
    IF G[n] > R[n]
    THEN [g |-> [G EXCEPT ![n] = R[n]], rhs |-> R, open |-> O]
    ELSE LET G1 == [G EXCEPT ![n] = Inf]
             uv == update_vertex(n, T, R, G1, O)
         IN  [g |-> G1, rhs |-> uv.rhs, open |-> uv.open]

\* the node's tag after "if not node.is_start() and not node.is_end(): node.check()"
CheckNode(T, n) ==
    IF ~is_start(T, n) /\ ~is_end(T, n) THEN check(T, n) ELSE T

\* a variant that tests only the consistency of end
LoopCond_NoKey(K, G, R) == R[end] # G[end]

\* a variant that compares the keys with <=
LoopCond_Le(K, G, R) ==
    ~KeyLess(calc_key(end, end, G, R), K) \/ R[end] # G[end]

\* the first conjunct of the while-condition of the main loop
LoopCond(K, G, R) ==
    KeyLess(K, calc_key(end, end, G, R)) \/ R[end] # G[end]

FreshG == [n \in Nodes |-> Inf]

FreshRhs(s) == [FreshG EXCEPT ![s] = 0]

FreshTags(s, e, bar) ==
    [n \in Nodes |-> IF n = s THEN "Start"
                     ELSE IF n = e THEN "End"
                     ELSE IF n \in bar THEN "Barrier"
                     ELSE "Default"]

\* the barrier sets the runs start from: walls next to end, or next to start
BarrierChoices(s, e) ==
    (SUBSET (Neighbors(e, {}) \ {s})) \cup (SUBSET (Neighbors(s, {}) \ {e}))

\* lines 113-122 of a first call of lpa_star on a freshly edited grid
Init ==
    /\ start \in Nodes
    /\ end \in Nodes \ {start}
    /\ barriers \in BarrierChoices(start, end)
    /\ endBeenChecked \in BOOLEAN
    /\ tags = FreshTags(start, end, barriers)
    /\ g = FreshG
    /\ rhs = FreshRhs(start)
    /\ topKey = calc_key(end, start, FreshG, FreshRhs(start))
    /\ open = SetToBag({Entry(calc_key(end, start, FreshG, FreshRhs(start)), start)})
    /\ run = TRUE
    /\ pc = "loop"
    /\ cur = NoNode
    /\ exit = "none"
    /\ route = << >>
    /\ reconCalls = 0
    /\ runNo = 1
    /\ gPrev = FreshG
    /\ rhsPrev = FreshG
    /\ blocked = NoNode
    /\ uvnode = NoNode
    /\ Idle

Frame == UNCHANGED <<start, end, barriers, endBeenChecked, runNo, gPrev,
                     rhsPrev, blocked, uvnode, hvars, tvars>>

\* one iteration of the main loop that pops an entry; stop is the answer of
\* the cancellation query of this iteration
Iterate(stops) ==
    /\ pc = "loop"
    /\ LoopCond(topKey, g, rhs) /\ run
    /\ open # EmptyOpen
    /\ \E stop \in stops : \E e \in MinEntries(open) :
         LET n  == e.node
             s1 == SettleNode(n, tags, rhs, g, PopEntry(open, e))
             s2 == UpdateNeighbors(NeighborSeq(n, barriers), tags, s1.rhs,
                                   s1.g, s1.open)
         IN  /\ run' = ~stop
             /\ topKey' = e.key
             /\ g' = s1.g
             /\ rhs' = s2.rhs
             /\ open' = s2.open
             /\ tags' = CheckNode(s2.tags, n)
             /\ IF n = end
                THEN /\ pc' = "reconstruct"
                     /\ cur' = n
                     /\ reconCalls' = reconCalls + 1
                ELSE /\ pc' = "loop"
                     /\ UNCHANGED <<cur, reconCalls>>
    /\ UNCHANGED <<exit, route>>
    /\ Frame

\* the iteration that finds the open list empty and breaks
BreakNoPath(stops) ==
    /\ pc = "loop"
    /\ LoopCond(topKey, g, rhs) /\ run
    /\ open = EmptyOpen
    /\ \E stop \in stops : run' = ~stop
    /\ pc' = "done"
    /\ exit' = "nopath"
    /\ UNCHANGED <<tags, g, rhs, open, topKey, cur, route, reconCalls>>
    /\ Frame

\* the while-condition is false: lpa_star returns
ExitLoop ==
    /\ pc = "loop"
    /\ ~(LoopCond(topKey, g, rhs) /\ run)
    /\ pc' = "done"
    /\ exit' = IF LoopCond(topKey, g, rhs) THEN "cancelled" ELSE "converged"
    /\ UNCHANGED <<tags, g, rhs, open, topKey, run, cur, route, reconCalls>>
    /\ Frame

\* ------------------------------------------------------------------ reconstruct_path
get_checked_neighbors(T, n) ==
    {nb \in Neighbors(n, barriers) : is_checked(T, nb) \/ is_start(T, nb)}

\* a variant that takes any checked neighbour, not one of lowest cost
MinCost_Any(S, costs) == S

\* the nodes min(get_checked_neighbors(current), key=costs) may return
MinCost(S, costs) == {x \in S : \A y \in S : costs[x] <= costs[y]}

\* one pass of the while loop of reconstruct_path(end, rhs, draw)
ReconstructStep ==
    /\ pc = "reconstruct"
    /\ IF is_start(tags, cur)
       THEN /\ pc' = "loop"
            /\ UNCHANGED <<cur, tags, route, exit>>
       ELSE IF get_checked_neighbors(tags, cur) = {}
       THEN \* min() of an empty list raises ValueError
            /\ pc' = "done"
            /\ exit' = "error"
            /\ UNCHANGED <<cur, tags, route>>
       ELSE \E c \in MinCost(get_checked_neighbors(tags, cur), rhs) :
            /\ cur' = c
            /\ exit' = exit
            /\ IF is_start(tags, c)
               THEN /\ pc' = "loop"
                    /\ UNCHANGED <<tags, route>>
               ELSE /\ pc' = "reconstruct"
                    /\ tags' = make_path(tags, c)
                    /\ route' = Append(route, c)
    /\ UNCHANGED <<g, rhs, open, topKey, run, reconCalls>>
    /\ Frame

\* a node marked Path by the first run becomes a Barrier and lpa_star is called
\* again: its neighbour lists are rebuilt without b, the other tags stay, and
\* lines 113-122 run anew
Rerun ==
    /\ pc = "done" /\ exit = "converged" /\ run
    /\ runNo = 1
    /\ \E b \in SeqRange(route) :
         /\ barriers' = barriers \cup {b}
         /\ tags' = [tags EXCEPT ![b] = "Barrier"]
         /\ blocked' = b
    /\ g' = FreshG
    /\ rhs' = FreshRhs(start)
    /\ topKey' = calc_key(end, start, FreshG, FreshRhs(start))
    /\ open' = SetToBag({Entry(calc_key(end, start, FreshG, FreshRhs(start)), start)})
    /\ run' = TRUE
    /\ pc' = "loop"
    /\ cur' = NoNode
    /\ exit' = "none"
    /\ route' = << >>
    /\ reconCalls' = 0
    /\ runNo' = 2
    /\ gPrev' = g
    /\ rhsPrev' = rhs
    /\ UNCHANGED <<start, end, endBeenChecked, uvnode, hvars, tvars>>

\* what the cancellation query of an iteration may answer: 'stop' or not
CancelAnswers == BOOLEAN

\* a query that never answers 'stop'
NeverCancel == {FALSE}

Next ==
    \/ Iterate(CancelAnswers)
    \/ BreakNoPath(CancelAnswers)
    \/ ExitLoop
    \/ ReconstructStep

Spec == Init /\ [][Next]_vars

\* two runs, the cancellation query never reporting 'stop'
NextReplan ==
    \/ Iterate(NeverCancel)
    \/ BreakNoPath(NeverCancel)
    \/ ExitLoop
    \/ ReconstructStep
    \/ Rerun

SpecReplan == Init /\ [][NextReplan]_vars

\* one run whose cancellation query never reports 'stop'
NextRun ==
    \/ Iterate(NeverCancel)
    \/ BreakNoPath(NeverCancel)
    \/ ExitLoop
    \/ ReconstructStep

SpecRun == Init /\ [][NextRun]_vars

\* ------------------------------------------------------------------ update_vertex alone
\* Inputs for two consecutive calls of update_vertex on one node: the node,
\* start and end at or next to it or in a far corner, one neighbour with any
\* tag and g value, g of start settled or not, any g value of the node, and an
\* open list that may hold stale or duplicate entries.
CostVals == (0 .. MaxCost) \cup {Inf}

Near(n) == {n} \cup Neighbors(n, {})

Corners == {<<0, 0>>, <<Rows - 1, Cols - 1>>}

EditableTags == {"Default", "Unchecked", "Checked", "Path"}

StaleKey == <<0, 0>>

OpenChoices(n, m) ==
    { EmptyBag,
      SetToBag({Entry(StaleKey, n)}),
      SetToBag({Entry(StaleKey, n)}) (+) SetToBag({Entry(StaleKey, n)}),
      SetToBag({Entry(StaleKey, n), Entry(<<MaxCost, MaxCost>>, n),
                Entry(StaleKey, m)}) }

InitUV ==
    /\ uvnode \in Nodes
    /\ start \in Near(uvnode) \cup Corners
    /\ end \in (Near(uvnode) \cup Corners) \ {start}
    /\ barriers = {}
    /\ \E nb \in Neighbors(uvnode, {}) :
         /\ endBeenChecked \in (IF nb = end THEN BOOLEAN ELSE {FALSE})
         /\ tags \in {[FreshTags(start, end, {}) EXCEPT ![nb] = t] :
                        t \in IF nb \in {start, end}
                              THEN {FreshTags(start, end, {})[nb]}
                              ELSE EditableTags}
         /\ g \in {[FreshG EXCEPT ![start] = gs, ![uvnode] = gu, ![nb] = gn] :
                        gs \in {0, Inf}, gu \in CostVals, gn \in CostVals}
         /\ open \in OpenChoices(uvnode, nb)
    /\ rhs = FreshRhs(start)
    /\ topKey = calc_key(end, start, FreshG, FreshRhs(start))
    /\ run = TRUE
    /\ pc = "uv0"
    /\ cur = NoNode
    /\ exit = "none"
    /\ route = << >>
    /\ reconCalls = 0
    /\ runNo = 1
    /\ gPrev = FreshG
    /\ rhsPrev = FreshG
    /\ blocked = NoNode
    /\ Idle

\* open_list = update_vertex(grid, uvnode, rhs, g, open_list), first at uv0
\* and once more at uv1
UVCall ==
    /\ pc \in {"uv0", "uv1"}
    /\ LET uv == update_vertex(uvnode, tags, rhs, g, open)
       IN  /\ rhs' = uv.rhs
           /\ open' = uv.open
    /\ pc' = IF pc = "uv0" THEN "uv1" ELSE "uv2"
    /\ UNCHANGED <<tags, g, topKey, run, cur, exit, route, reconCalls>>
    /\ Frame

NextUV == UVCall

SpecUV == InitUV /\ [][NextUV]_vars

\* ------------------------------------------------------------------ reconstruct_path alone
\* Inputs for a call reconstruct_path(end, costs, draw) on an open grid: at
\* most MaxChecked nodes tagged Checked anywhere, and as costs the distances
\* from start or a map with one value for every node.
MaxChecked == 2

CheckedSets(s, e) ==
    {S \in SUBSET (Nodes \ {s, e}) : Cardinality(S) <= MaxChecked}

CostMaps(s) == {[n \in Nodes |-> manhattan(s, n)], [n \in Nodes |-> 0]}

InitRecon ==
    /\ start \in Nodes
    /\ end \in Nodes \ {start}
    /\ barriers = {}
    /\ endBeenChecked = FALSE
    /\ \E S \in CheckedSets(start, end) :
         tags = [n \in Nodes |-> IF n \in S THEN "Checked"
                                 ELSE FreshTags(start, end, {})[n]]
    /\ g = FreshG
    /\ rhs \in CostMaps(start)
    /\ topKey = calc_key(end, start, FreshG, FreshRhs(start))
    /\ open = EmptyOpen
    /\ run = TRUE
    /\ pc = "reconstruct"
    /\ cur = end
    /\ exit = "none"
    /\ route = << >>
    /\ reconCalls = 1
    /\ runNo = 1
    /\ gPrev = FreshG
    /\ rhsPrev = FreshG
    /\ blocked = NoNode
    /\ uvnode = NoNode
    /\ Idle

NextRecon == ReconstructStep

SpecRecon == InitRecon /\ [][NextRecon]_vars

\* ------------------------------------------------------------------ heuristic alone
\* Inputs for one call heuristic(type, node1, node2, *args): every pair of
\* nodes, every kind and one unknown kind, for minkowski an exponent up to
\* MaxP or no argument, and for d_manhattan any state of node1's neighbours.
MaxP == 3

HeurTypes == {"chebyshev", "d_manhattan", "euclidean", "manhattan",
              "minkowski", "mahalanobis", "other"}

ArgChoices(type) ==
    IF type = "minkowski" THEN {<<p>> : p \in 0 .. MaxP} \cup {<< >>}
    ELSE {<< >>}

NeighborTags == {"Default", "Unchecked", "Checked", "Path", "Barrier"}

\* the grids in which only the neighbours of n have been edited
TagChoices(n, s, e) ==
    LET free == Neighbors(n, {}) \ {s, e}
    IN  {[m \in Nodes |-> IF m \in free THEN f[m] ELSE FreshTags(s, e, {})[m]] :
            f \in [free -> NeighborTags]}

InitHeur ==
    /\ start \in {<<0, 0>>, <<0, 1>>}
    /\ end = <<Rows - 1, Cols - 1>>
    /\ endBeenChecked = FALSE
    /\ \E type \in HeurTypes, n1 \in Nodes, n2 \in Nodes :
         /\ hcall \in {[type |-> type, node1 |-> n1, node2 |-> n2, args |-> a] :
                          a \in ArgChoices(type)}
         /\ tags \in (IF type = "d_manhattan"
                      THEN TagChoices(n1, start, end)
                      ELSE {FreshTags(start, end, {})})
    /\ barriers = {n \in Nodes : tags[n] = "Barrier"}
    /\ hret = NoVal
    /\ g = FreshG
    /\ rhs = FreshRhs(start)
    /\ topKey = calc_key(end, start, FreshG, FreshRhs(start))
    /\ open = EmptyOpen
    /\ run = TRUE
    /\ pc = "h0"
    /\ cur = NoNode
    /\ exit = "none"
    /\ route = << >>
    /\ reconCalls = 0
    /\ runNo = 1
    /\ gPrev = FreshG
    /\ rhsPrev = FreshG
    /\ blocked = NoNode
    /\ uvnode = NoNode
    /\ IdleThreads

\* the call returns or raises
HeuristicCall ==
    /\ pc = "h0"
    /\ hret' = heuristic(hcall.type, hcall.node1, hcall.node2, hcall.args,
                         tags, barriers)
    /\ pc' = "h1"
    /\ UNCHANGED <<start, end, barriers, endBeenChecked, tags, g, rhs, open,
                   topKey, run, cur, exit, route, reconCalls, runNo, gPrev,
                   rhsPrev, blocked, uvnode, hcall, tvars>>

NextHeur == HeuristicCall

SpecHeur == InitHeur /\ [][NextHeur]_vars

\* ------------------------------------------------------------------ thread_construct alone
\* thread_construct(args1, args2) with one came_from dict in both tuples, on
\* every dict and every (current, target) for which both walks end.
InitThread ==
    /\ cameFrom \in CameFromMaps
    /\ wargs \in [Workers -> [current : WalkNodes, target : WalkNodes]]
    /\ \A i \in Workers : Terminates(cameFrom, wargs[i])
    /\ workers = [i \in Workers |-> WorkerIdle]
    /\ path = <<0, 0>>
    /\ tresult = NoResult
    /\ pc = "created"
    /\ start = <<0, 0>>
    /\ end = <<Rows - 1, Cols - 1>>
    /\ barriers = {}
    /\ endBeenChecked = FALSE
    /\ tags = FreshTags(start, end, {})
    /\ g = FreshG
    /\ rhs = FreshRhs(start)
    /\ topKey = calc_key(end, start, FreshG, FreshRhs(start))
    /\ open = EmptyOpen
    /\ run = TRUE
    /\ cur = NoNode
    /\ exit = "none"
    /\ route = << >>
    /\ reconCalls = 0
    /\ runNo = 1
    /\ gPrev = FreshG
    /\ rhsPrev = FreshG
    /\ blocked = NoNode
    /\ uvnode = NoNode
    /\ IdleHeur

EngineFrame ==
    UNCHANGED <<start, end, barriers, endBeenChecked, tags, g, rhs, open,
                topKey, run, cur, exit, route, reconCalls, runNo, gPrev,
                rhsPrev, blocked, uvnode, hvars>>

\* n1.start() and then n2.start()
StartThread ==
    /\ pc \in {"created", "started1"}
    /\ LET i == IF pc = "created" THEN 1 ELSE 2
       IN  workers' = [workers EXCEPT ![i] =
                          [pc |-> "test", current |-> wargs[i].current,
                           tmp |-> 0]]
    /\ pc' = IF pc = "created" THEN "started1" ELSE "started2"
    /\ UNCHANGED <<cameFrom, wargs, path, tresult>>
    /\ EngineFrame

\* worker i tests "current in came_from" and "came_from[current] != target";
\* when the walk goes on it moves current and loads path_size[0]
WalkStep(i) ==
    /\ workers[i].pc = "test"
    /\ workers' = [workers EXCEPT ![i] =
          IF GoesOn(cameFrom, workers[i].current, wargs[i].target)
          THEN [pc |-> "store", current |-> cameFrom[workers[i].current],
                tmp |-> path[Slot(i)]]
          ELSE [pc |-> "done", current |-> workers[i].current,
                tmp |-> workers[i].tmp]]
    /\ UNCHANGED <<cameFrom, wargs, path, tresult, pc>>
    /\ EngineFrame

\* worker i stores the incremented counter: the second half of "+= 1"
Store(i) ==
    /\ workers[i].pc = "store"
    /\ path' = [path EXCEPT ![Slot(i)] = workers[i].tmp + 1]
    /\ workers' = [workers EXCEPT ![i].pc = "test"]
    /\ UNCHANGED <<cameFrom, wargs, tresult, pc>>
    /\ EngineFrame

\* n1.join() and then n2.join(): each waits for its worker to finish
Join ==
    /\ pc \in {"started2", "joined1"}
    /\ workers[IF pc = "started2" THEN 1 ELSE 2].pc = "done"
    /\ pc' = IF pc = "started2" THEN "joined1" ELSE "joined2"
    /\ UNCHANGED tvars
    /\ EngineFrame

\* return path1[0] + path2[0] + 1
Return ==
    /\ pc = "joined2"
    /\ tresult' = path[1] + path[2] + 1
    /\ pc' = "returned"
    /\ UNCHANGED <<cameFrom, wargs, workers, path>>
    /\ EngineFrame

NextThread ==
    \/ StartThread
    \/ \E i \in Workers : WalkStep(i)
    \/ \E i \in Workers : Store(i)
    \/ Join
    \/ Return

SpecThread == InitThread /\ [][NextThread]_vars

\* ------------------------------------------------------------------ reference
\* breadth-first search with unit weights: the distance from the frontier
\* (at distance d) to t, Inf when t cannot be reached
RECURSIVE BFSLevel(_, _, _, _, _)
BFSLevel(frontier, seen, d, t, bar) ==
    IF t \in frontier THEN d
    ELSE IF frontier = {} THEN Inf
    ELSE LET nxt == (UNION {Neighbors(n, bar) : n \in frontier}) \ seen
         IN  BFSLevel(nxt, seen \cup nxt, d + 1, t, bar)

BFSDist(s, t, bar) == BFSLevel({s}, {s}, 0, t, bar)

Adjacent(a, b) == manhattan(a, b) = 1

PathTagged == {n \in Nodes : tags[n] = "Path"}

\* the nodes of route, in order, lead from a neighbour of end to a neighbour
\* of start through adjacent cells
IsRoute(r) ==
    /\ r # << >> => Adjacent(end, r[1]) /\ Adjacent(r[Len(r)], start)
    /\ r = << >> => Adjacent(end, start)
    /\ \A i \in 1 .. Len(r) - 1 : Adjacent(r[i], r[i + 1])

\* ------------------------------------------------------------------ claims
\* C1: on a barrier-free grid a run from fresh state that is never cancelled
\* leaves the loop by its while-condition with g[end] equal to the BFS
\* distance from start to end, whatever entry of minimal key each pop returns.
Thm_C1 ==
    (pc = "done" /\ run /\ runNo = 1 /\ barriers = {})
        => (exit = "converged" /\ g[end] = BFSDist(start, end, {}))

Wit_C1 ==
    /\ pc = "done" /\ run /\ runNo = 1 /\ barriers = {}
    /\ exit = "converged"
    /\ g[end] = 4

\* C2: when the loop is left because the while-condition is false, end is
\* locally consistent and no entry left in the open list has a key smaller
\* than calc_key(end) under the current g and rhs.
Thm_C2 ==
    (pc = "done" /\ exit = "converged")
        => /\ g[end] = rhs[end]
           /\ \A e \in DOMAIN open :
                  ~KeyLess(e.key, calc_key(end, end, g, rhs))

Wit_C2 ==
    /\ pc = "done" /\ exit = "converged"
    /\ open # EmptyOpen
    /\ g[end] > 1

\* C3: rhs[start] is 0 in every state of a run.
Thm_C3 == rhs[start] = 0

\* update_vertex has been called on start as a neighbour of a popped node
Wit_C3 ==
    /\ pc = "loop"
    /\ \E n \in Neighbors(start, barriers) : tags[n] = "Checked"
    /\ rhs[start] = 0

\* C4: at every boundary of a main-loop iteration each inconsistent node has
\* exactly one entry in the open list and each consistent node has none.
Thm_C4 ==
    pc = "loop" =>
        \A n \in Nodes : CountOf(open, n) = IF g[n] # rhs[n] THEN 1 ELSE 0

Wit_C4 ==
    /\ pc = "loop"
    /\ \E n \in Nodes \ {start} : g[n] = rhs[n] /\ g[n] < Inf
    /\ \E m \in Nodes : g[m] # rhs[m] /\ CountOf(open, m) = 1

\* C5: update_vertex is idempotent: the second of two consecutive calls on
\* the same node leaves rhs and the entries of the open list as the first call
\* left them.
Thm_C5 == [][pc = "uv1" => (rhs' = rhs /\ open' = open)]_vars

\* both calls were made on a non-start node that had stale entries and that
\* the first call re-keyed
Wit_C5 ==
    /\ pc = "uv2"
    /\ uvnode # start
    /\ rhs[uvnode] < Inf
    /\ g[uvnode] # rhs[uvnode]
    /\ CountOf(open, uvnode) = 1
    /\ Entry(StaleKey, uvnode) \notin DOMAIN open

\* C6: when end cannot be reached from start, the run never calls
\* reconstruct_path, marks no node Path, keeps g[end] infinite, and a run that
\* is never cancelled stops through the empty-open-list break.
Thm_C6 ==
    BFSDist(start, end, barriers) = Inf
        => /\ reconCalls = 0
           /\ PathTagged = {}
           /\ g[end] = Inf
           /\ (pc = "done" /\ run) => exit = "nopath"

\* end is walled off: every cell around it is a barrier
Wit_C6 ==
    /\ pc = "done" /\ run /\ exit = "nopath"
    /\ Neighbors(end, barriers) = {}
    /\ Neighbors(start, barriers) # {}
    /\ g[end] = Inf

\* C7 (as claimed): in the iteration in which the cancellation query reports
\* 'stop' nothing is popped, no g, rhs or tag changes and reconstruct_path is
\* not called.
Cex_C7 ==
    [][(run /\ ~run')
         => /\ open' = open /\ g' = g /\ rhs' = rhs /\ tags' = tags
            /\ reconCalls' = reconCalls]_vars

\* C8: after a path was found and one of its intermediate nodes became a
\* Barrier, the second run (tags left by the first) ends with g[end] equal to
\* the BFS distance of the modified grid; the nodes it marks Path lead from
\* end to start through adjacent cells and do not contain the barrier node,
\* and when no route is left it marks none.
Thm_C8 ==
    (runNo = 2 /\ pc = "done")
        => LET d == BFSDist(start, end, barriers)
           IN  /\ g[end] = d
               /\ d = Inf => (exit = "nopath" /\ route = << >>)
               /\ d < Inf => /\ exit = "converged"
                             /\ IsRoute(route)
                             /\ Len(route) = d - 1
                             /\ Cardinality(SeqRange(route)) = Len(route)
                             /\ blocked \notin SeqRange(route)
                             /\ \A i \in 1 .. Len(route) :
                                    /\ route[i] \notin barriers
                                    /\ tags[route[i]] = "Path"

\* the second run found a longer way round the new barrier
Wit_C8 ==
    /\ runNo = 2 /\ pc = "done" /\ exit = "converged"
    /\ blocked \in Nodes /\ tags[blocked] = "Barrier"
    /\ g[end] > gPrev[end]
    /\ Len(route) = g[end] - 1

\* C9 (as claimed): the call that starts the second run leaves g and rhs of
\* every node whose distance from start the new barrier does not change as
\* the first run left them.
Cex_C9 ==
    [][(runNo = 1 /\ runNo' = 2)
         => \A n \in Nodes :
                BFSDist(start, n, barriers) = BFSDist(start, n, barriers')
                    => (g'[n] = g[n] /\ rhs'[n] = rhs[n])]_vars

\* C10: when a run from fresh state converges with end reachable,
\* reconstruct_path has walked from end to start, the i-th node it marked has
\* cost g[end] - i, and it marked exactly g[end] - 1 nodes.
Thm_C10 ==
    /\ \A i \in 1 .. Len(route) : rhs[route[i]] = g[end] - i
    /\ (pc = "done" /\ exit = "converged" /\ runNo = 1
          /\ BFSDist(start, end, barriers) < Inf)
         => /\ reconCalls = 1
            /\ cur = start
            /\ Len(route) = g[end] - 1
            /\ IsRoute(route)
            /\ PathTagged = SeqRange(route)

\* the 3x3 scenario: start (0,0), end (2,2), cost 4, three nodes marked
Wit_C10 ==
    /\ pc = "done" /\ exit = "converged" /\ runNo = 1
    /\ Rows >= 3 /\ Cols >= 3
    /\ start = <<0, 0>> /\ end = <<2, 2>> /\ barriers = {}
    /\ g[end] = 4 /\ Len(route) = 3 /\ cur = start

\* C17: at every boundary of a main-loop iteration the key stored with each
\* open-list entry is calc_key of its node under the current g and rhs.
Thm_C17 ==
    pc = "loop" =>
        \A e \in DOMAIN open : e.key = calc_key(end, e.node, g, rhs)

\* several entries are waiting, one of them for a node two or more steps away
Wit_C17 ==
    /\ pc = "loop"
    /\ \E e \in DOMAIN open : rhs[e.node] > 1 /\ rhs[e.node] < Inf
    /\ Cardinality(DOMAIN open) >= 2

\* C18: in a run from fresh state reconstruct_path is called at most once;
\* the pop that leads to the call finds end overconsistent and sets g[end] to
\* rhs[end]; and once reconstruct_path has returned, the next while-check ends
\* the loop.
Thm_C18 ==
    [][/\ reconCalls' <= 1
       /\ reconCalls' = reconCalls + 1
            => (g[end] > rhs[end] /\ g'[end] = rhs[end] /\ rhs'[end] = rhs[end])
       /\ (reconCalls = 1 /\ pc = "loop") => pc' = "done"]_vars

\* the loop ended after the one call, with entries still waiting in the list
Wit_C18 ==
    /\ pc = "done" /\ exit = "converged" /\ run
    /\ reconCalls = 1
    /\ open # EmptyOpen
    /\ route # << >>

\* C19: no step of the engine changes the tag of start or of end, turns a
\* Checked node into an Unchecked one, or marks as Path a node that was not
\* Checked.
Thm_C19 ==
    [][/\ tags'[start] = tags[start]
       /\ tags'[end] = tags[end]
       /\ \A n \in Nodes :
            /\ tags[n] = "Checked" => tags'[n] # "Unchecked"
            /\ (tags'[n] = "Path" /\ tags[n] # "Path") => tags[n] = "Checked"
            /\ (tags'[n] = "Unchecked" /\ tags[n] # "Unchecked")
                 => tags[n] \in {"Default", "Path"}
            /\ (tags'[n] = "Checked" /\ tags[n] # "Checked")
                 => tags[n] = "Unchecked"]_vars

\* the second run popped a node next to a node the first run left Checked,
\* and drew its path
Wit_C19 ==
    /\ runNo = 2 /\ pc = "done" /\ exit = "converged"
    /\ route # << >>
    /\ \E n \in Nodes : /\ tags[n] = "Checked" /\ g[n] = Inf
                        /\ \E m \in Neighbors(n, barriers) :
                               tags[m] \in {"Checked", "Path"} /\ g[m] < Inf

\* C15: with the cancellation query never reporting 'stop' the main loop
\* terminates: every iteration that pops an entry lowers the number of nodes
\* whose g is infinite (so a node is never popped twice and there are at most
\* as many pops as nodes), every pass of reconstruct_path's loop lowers the
\* number of Checked nodes, the while-condition is false when reconstruct_path
\* returns, no state before the end is stuck, and the loop is left by the
\* while-condition or by the empty-open-list break.
Unsettled == Cardinality({n \in Nodes : g[n] = Inf})

CheckedCount == Cardinality({n \in Nodes : tags[n] = "Checked"})

CanStep ==
    /\ (pc = "loop" /\ open # EmptyOpen) => MinEntries(open) # {}
    /\ (pc = "reconstruct" /\ get_checked_neighbors(tags, cur) # {})
         => MinCost(get_checked_neighbors(tags, cur), rhs) # {}
    /\ pc \in {"loop", "reconstruct", "done"}

Thm_C15 ==
    [][/\ (pc = "loop" /\ pc' # "done") => Unsettled' < Unsettled
       /\ (pc = "reconstruct" /\ pc' = "reconstruct")
            => CheckedCount' < CheckedCount
       /\ (pc = "reconstruct" /\ pc' = "loop")
            => ~LoopCond(topKey', g', rhs')
       /\ pc' = "done" => exit' \in {"converged", "nopath"}
       /\ CanStep /\ CanStep']_vars

\* a run that ended by the break after popping every reachable node
Wit_C15 ==
    /\ pc = "done" /\ exit = "nopath"
    /\ \E n \in Nodes : tags[n] = "Checked" /\ g[n] >= 2 /\ g[n] < Inf

\* C11 (as claimed): when at some step of reconstruct_path the current node
\* has no neighbour that is Checked or Start, the function returns normally,
\* without raising an error and without marking any further node as Path.
Cex_C11 ==
    [][(/\ pc = "reconstruct"
        /\ ~is_start(tags, cur)
        /\ get_checked_neighbors(tags, cur) = {})
         => (pc' = "loop" /\ exit' # "error" /\ tags' = tags)]_vars

\* C14: after update_vertex on a non-start node, rhs of the node is the least
\* g[neighbour] + 1 over the neighbours that are Checked, Start, Unchecked or
\* End with been_checked set, and infinity when there is none; neighbours in
\* any other state do not contribute, whatever their g value.
Contributors ==
    {nb \in Neighbors(uvnode, barriers) :
        \/ tags[nb] \in {"Checked", "Start", "Unchecked"}
        \/ (tags[nb] = "End" /\ endBeenChecked)}

StepCost(nb) == IF g[nb] = Inf THEN Inf ELSE g[nb] + 1

Thm_C14 ==
    (pc \in {"uv1", "uv2"} /\ uvnode # start)
        => /\ \A nb \in Contributors : rhs[uvnode] <= StepCost(nb)
           /\ \/ rhs[uvnode] = Inf
              \/ \E nb \in Contributors : rhs[uvnode] = StepCost(nb)

\* two neighbours contribute different finite values
Wit_C14 ==
    /\ pc = "uv1" /\ uvnode # start
    /\ \E a \in Contributors, b \in Contributors :
         StepCost(a) < StepCost(b) /\ StepCost(b) < Inf
    /\ rhs[uvnode] < Inf

\* a neighbour that does not qualify holds a finite g and rhs stays infinite
Wit_C14_ignored ==
    /\ pc = "uv1" /\ uvnode # start
    /\ \E nb \in Neighbors(uvnode, barriers) \ Contributors : g[nb] = 0
    /\ rhs[uvnode] = Inf

\* C12 (as claimed): d_manhattan(node1, node2) is |dx| + |dy| plus the number
\* of neighbours of node1 that are neither Checked nor Unchecked.
Cex_C12 ==
    (pc = "h1" /\ hcall.type = "d_manhattan")
        => LET n1 == hcall.node1
               n2 == hcall.node2
               other == {nb \in Neighbors(n1, barriers) :
                            tags[nb] \notin {"Checked", "Unchecked"}}
           IN  hret = Val(Abs(n1[1] - n2[1]) + Abs(n1[2] - n2[2])
                            + Cardinality(other), 1)

\* C13: whatever kind heuristic() is called with, a value it returns is >= 0,
\* and float("inf") is returned by mahalanobis only.
Thm_C13 ==
    pc = "h1"
        => \/ hret.tag = "num" /\ hret.num >= 0 /\ hret.root >= 1
           \/ hret.tag = "inf" /\ hcall.type = "mahalanobis"
           \/ hret.tag \in {"ZeroDivisionError", "IndexError"}

\* an unknown kind fell back to manhattan on nodes whose differences cancel
Wit_C13 ==
    /\ pc = "h1" /\ hcall.type = "other"
    /\ hcall.node1[1] < hcall.node2[1] /\ hcall.node1[2] > hcall.node2[2]
    /\ hret = Val(manhattan(hcall.node1, hcall.node2), 1)
    /\ hret.num >= 2

\* C20: for every pair of grid positions mahalanobis returns float("inf"):
\* the determinant of the covariance matrix is 0, below the threshold.
Thm_C20 ==
    (pc = "h1" /\ hcall.type = "mahalanobis")
        => /\ hret = InfVal
           /\ determinant_2x2(covariance_matrix(hcall.node1, hcall.node2)) = 0

\* the two positions differ in both coordinates
Wit_C20 ==
    /\ pc = "h1" /\ hcall.type = "mahalanobis"
    /\ hcall.node1[1] # hcall.node2[1] /\ hcall.node1[2] # hcall.node2[2]
    /\ hret = InfVal

\* C16: however the two workers interleave, thread_construct returns
\* count1 + count2 + 1, count_i being what thread_count_path computes alone
\* on args_i; no step changes came_from, counter slot i changes only by a
\* store of worker i, and the sum is taken after both workers have finished.
Thm_C16 ==
    [][/\ cameFrom' = cameFrom
       /\ \A i \in Workers :
            path'[i] # path[i]
                => (workers[i].pc = "store" /\ workers'[i].pc = "test")
       /\ (pc' = "returned" /\ pc # "returned")
            => /\ \A i \in Workers : workers[i].pc = "done"
               /\ tresult' =
                    CountAlone(cameFrom, wargs[1].current, wargs[1].target, NumW)
                    + CountAlone(cameFrom, wargs[2].current, wargs[2].target, NumW)
                    + 1]_vars

\* both workers walked the same dict, one of them two steps
Wit_C16 ==
    /\ pc = "returned"
    /\ path[1] >= 2 /\ path[2] >= 1
    /\ tresult = path[1] + path[2] + 1

====
